---- MODULE Spec2Model ----
(***************************************************************************)
(* A model of apps/dictate.py: the dictation tool's control flow.          *)
(*                                                                         *)
(* The program is one Python thread.  Its position is pc; the functions    *)
(* main, run_spacebar_mode and run_interactive_mode are the regions of pc. *)
(* The five copies of the record -> transcribe -> dispatch cycle in the    *)
(* source share the cycle positions; ck tells which copy is running, and   *)
(* every place where the copies differ is an operator of ck.               *)
(*                                                                         *)
(* Text (command arguments, file names, language codes, transcriptions)    *)
(* is a tuple of one-character strings, so that strip(), isdigit(),        *)
(* int() and float() are computed and not assumed.                         *)
(***************************************************************************)
EXTENDS Integers, Sequences, FiniteSets, TLC

\* ------------------------------------------------------------------ bounds

\* Longest fixed recording, in seconds, the model's inputs ask for.
MaxSeconds == 1

\* Most commands of one session that change the settings.
MaxCommands == 2

\* --------------------------------------------------------- program constants

RATE == 16000
CHUNK == 1024
max_duration == 60
DefaultDelayTenths == 10

\* -------------------------------------------------------------------- text

None == <<"None">>

s_empty == <<>>
s_auto == <<"a", "u", "t", "o">>
s_en == <<"e", "n">>
s_on == <<"o", "n">>
s_true == <<"t", "r", "u", "e">>
s_yes == <<"y", "e", "s">>
s_off == <<"o", "f", "f">>
s_false == <<"f", "a", "l", "s", "e">>
s_no == <<"n", "o">>
s_0 == <<"0">>
s_1 == <<"1">>
s_maybe == <<"m", "a", "y", "b", "e">>
s_x == <<"x">>
s_neg1 == <<"-", "1">>
s_1p5 == <<"1", ".", "5">>
s_dot == <<".">>
s_sup2 == <<"^2">>
s_tiny == <<"t", "i", "n", "y">>
s_small == <<"s", "m", "a", "l", "l">>
s_base == <<"b", "a", "s", "e">>
s_medium == <<"m", "e", "d", "i", "u", "m">>
s_large == <<"l", "a", "r", "g", "e">>
s_turbo == <<"t", "u", "r", "b", "o">>
s_huge == <<"h", "u", "g", "e">>
s_f1 == <<"f", "1">>
s_f2 == <<"f", "2">>

Whitespace == {" "}

\* str.strip(): leading and trailing whitespace removed.
RECURSIVE LStrip(_)
LStrip(s) ==
    IF s = <<>> THEN <<>>
    ELSE IF Head(s) \in Whitespace THEN LStrip(Tail(s)) ELSE s

RECURSIVE RStrip(_)
RStrip(s) ==
    IF s = <<>> THEN <<>>
    ELSE IF s[Len(s)] \in Whitespace THEN RStrip(SubSeq(s, 1, Len(s) - 1)) ELSE s

Strip(s) == RStrip(LStrip(s))

\* What model.transcribe may return as result["text"].
Texts == { <<>>, <<" ">>, <<" ", "a", " ">> }

\* int(rate / CHUNK * duration): the number of chunks record_audio reads.
NumChunks(d) ==
    IF d >= 0 THEN (RATE * d) \div CHUNK ELSE 0 - ((RATE * (0 - d)) \div CHUNK)

\* ------------------------------------------------------------------- state

VARIABLES
    pc,             \* where the main thread is
    ck,             \* which copy of the cycle runs: none, hotkey, record,
                    \* continuous, cli_continuous, cli_single
    args,           \* parse_arguments()'s result
    running,        \* the global flag
    device_index,   \* the selected microphone, or None
    model,          \* the name of the loaded whisper model
    language,       \* run_spacebar_mode's and main's local
    output_file,    \* run_spacebar_mode's and main's local: the file a handle is on
    settings,       \* run_interactive_mode's dictionary
    duration,       \* record_audio's parameter
    chunk_i,        \* record_audio's loop index
    elapsed_time,   \* record_until_shift_spacebar's local, in seconds
    checked,        \* last_check has been set in this recording
    result_text,    \* result["text"], as model.transcribe returned it
    transcription,  \* result["text"].strip()
    audio_file,     \* the cycle's temporary WAV file exists
    nOpen,          \* transcript file handles open
    inflight,       \* cycles started and not ended
    log,            \* what the current cycle has called, in order
    stop_reason,    \* why the last recording loop ended
    diag,           \* the kind of the last message printed about a failure
    ncmd,           \* settings commands that have changed the settings
    disk            \* the transcript files that hold a written transcription

vars == <<pc, ck, args, running, device_index, model, language, output_file,
          settings, duration, chunk_i, elapsed_time, checked, result_text,
          transcription,
          audio_file, nOpen, inflight, log, stop_reason, diag, ncmd, disk>>

conf == <<args, device_index, model, language, output_file, settings, ncmd,
          disk>>
recv == <<duration, chunk_i, elapsed_time, checked>>
cycv == <<result_text, transcription, audio_file, log, stop_reason>>

NoSettings == [model |-> None, language |-> None, save_file |-> None,
               clipboard |-> FALSE, autopaste |-> FALSE, delay |-> 0,
               duration |-> 0, output_file |-> None]

ArgLanguages == {None, s_auto, s_en}
ArgSaves == {None, s_f1}
ArgDurations == 0 .. MaxSeconds
Devices == {None, s_1}
Keys == {"none", "toggle", "esc"}

\* The command lines the model starts from: --spacebar is on unless
\* --no-spacebar is given, and then --interactive chooses between the shell
\* and the two plain modes.  Flags a mode never reads are left at one value.
Args ==
    [model : {s_small}, language : ArgLanguages, save : ArgSaves,
     continuous : {FALSE}, duration : {MaxSeconds}, skip_check : BOOLEAN,
     clipboard : {TRUE}, autopaste : BOOLEAN, delay : {DefaultDelayTenths},
     interactive : {FALSE}, spacebar : {TRUE}]
    \cup
    [model : {s_small}, language : ArgLanguages, save : ArgSaves,
     continuous : {FALSE}, duration : {MaxSeconds}, skip_check : BOOLEAN,
     clipboard : {TRUE}, autopaste : {FALSE}, delay : {DefaultDelayTenths},
     interactive : {TRUE}, spacebar : {FALSE}]
    \cup
    [model : {s_small}, language : ArgLanguages, save : ArgSaves,
     continuous : BOOLEAN, duration : ArgDurations, skip_check : BOOLEAN,
     clipboard : {TRUE}, autopaste : BOOLEAN, delay : {DefaultDelayTenths},
     interactive : {FALSE}, spacebar : {FALSE}]

Init ==
    /\ pc = "load_model"
    /\ ck = "none"
    /\ args \in Args
    /\ running = TRUE
    /\ device_index = None
    /\ model = None
    /\ language = None
    /\ output_file = None
    /\ settings = NoSettings
    /\ duration = 0
    /\ chunk_i = 0
    /\ elapsed_time = 0
    /\ checked = FALSE
    /\ result_text = <<>>
    /\ transcription = <<>>
    /\ audio_file = FALSE
    /\ nOpen = 0
    /\ inflight = 0
    /\ log = <<>>
    /\ stop_reason = "none"
    /\ diag = "none"
    /\ ncmd = 0
    /\ disk = {}

\* --------------------------------------------------------------- positions

MainStartPcs == {"load_model", "select_mic", "volume_check", "dispatch_mode"}

CyclePcs == {"sb_wait", "sb_esc", "hk_open", "hk_rec", "ra_open", "ra_rec",
             "after_rec", "transcribe", "d_file", "d_clip", "d_paste",
             "cleanup", "exit_cleanup"}

\* Inside record_until_shift_spacebar or record_audio.
RecordingPcs == {"hk_open", "hk_rec", "ra_open", "ra_rec"}

Interactive == ck \in {"record", "continuous"}

\* Inside run_interactive_mode's command loop (its try ... except Exception).
InInteractiveLoop ==
    pc \in {"prompt", "cont_loop"} \/ (pc \in CyclePcs /\ Interactive)

\* In run_interactive_mode at all.
InInteractiveMode == pc \in {"in_open", "in_mic", "in_vol"} \/ InInteractiveLoop

\* The variable that holds the transcript file handle where the thread is.
Handle == IF InInteractiveMode THEN settings.output_file ELSE output_file

\* Inside a try whose finally closes the transcript file.
InTryFinally ==
    pc \notin MainStartPcs \cup {"sb_open", "in_open", "in_mic", "in_vol",
                                 "cli_open", "done"}

\* SessionState, read off the position.
State ==
    CASE pc \in {"sb_wait", "sb_esc"} -> "AwaitingHotkeyStart"
      [] pc \in {"hk_open", "hk_rec", "ra_open", "ra_rec", "after_rec"} -> "Recording"
      [] pc = "transcribe" -> "Transcribing"
      [] pc \in {"d_file", "d_clip", "d_paste", "cleanup"} -> "Dispatching"
      [] pc \in {"exit_cleanup", "done"} -> "ShuttingDown"
      [] OTHER -> "Idle"

\* -------------------------------------------------------------- exceptions

EndCycle == inflight' = IF pc \in CyclePcs THEN inflight - 1 ELSE inflight

\* The thread leaves through the enclosing finally blocks and main's own:
\* a return or break out of the mode's loop, or an exception nothing catches.
LeaveWith(d) ==
    /\ pc' = "done"
    /\ ck' = ck
    /\ nOpen' = IF InTryFinally /\ Handle # None THEN nOpen - 1 ELSE nOpen
    /\ EndCycle
    /\ diag' = d

Leave == LeaveWith(diag)

\* An Exception is raised where the thread is: the interactive loop's
\* "except Exception" prints it and prompts again; elsewhere it reaches main.
RaiseException ==
    IF InInteractiveLoop
    THEN /\ pc' = "prompt"
         /\ ck' = "none"
         /\ nOpen' = nOpen
         /\ EndCycle
         /\ diag' = "error"
    ELSE LeaveWith("error")

\* sys.exit(): SystemExit is no Exception, so only the finally blocks run.
RaiseSystemExit == Leave

ctlv == <<pc, ck, nOpen, inflight, diag>>

\* A collaborator was called (its log entries are `calls`) and raised.
Raised(calls) == log' = log \o calls \o <<"raise">>

\* ------------------------------------------------------------ main: start-up

\* whisper.load_model(args.model)
LoadModel ==
    /\ pc = "load_model"
    /\ \E ok \in BOOLEAN :
          IF ok
          THEN /\ model' = args.model
               /\ pc' = "select_mic"
               /\ UNCHANGED <<ck, nOpen, inflight, diag>>
          ELSE /\ RaiseException
               /\ UNCHANGED model
    /\ UNCHANGED <<args, running, device_index, language, output_file, settings,
                   ncmd, disk, recv, cycv>>

\* list_microphones() and the selection prompt; an invalid answer keeps None.
SelectMicrophone(next) ==
    /\ \E d \in Devices : device_index' = d
    /\ pc' = next
    /\ UNCHANGED <<ck, nOpen, inflight, diag, args, running, model, language,
                   output_file, settings, ncmd, disk, recv, cycv>>

MainSelectMicrophone ==
    /\ pc = "select_mic"
    /\ SelectMicrophone("volume_check")

\* check_microphone_volume(): returns, or exits on a low volume the user
\* declines, or fails to open the stream.
CheckMicrophoneVolume(next) ==
    /\ IF args.skip_check
       THEN /\ pc' = next
            /\ UNCHANGED <<ck, nOpen, inflight, diag>>
       ELSE \E outcome \in {"ok", "exit", "error"} :
               CASE outcome = "ok" -> /\ pc' = next
                                      /\ UNCHANGED <<ck, nOpen, inflight, diag>>
                 [] outcome = "exit" -> RaiseSystemExit
                 [] outcome = "error" -> RaiseException
    /\ UNCHANGED <<conf, running, recv, cycv>>

MainCheckVolume ==
    /\ pc = "volume_check"
    /\ CheckMicrophoneVolume("dispatch_mode")

\* main's choice of mode.
DispatchMode ==
    /\ pc = "dispatch_mode"
    /\ pc' = IF args.spacebar THEN "sb_open"
             ELSE IF args.interactive THEN "in_open" ELSE "cli_open"
    /\ UNCHANGED <<ck, nOpen, inflight, diag, conf, running, recv, cycv>>

\* ----------------------------------------------------------------- a cycle

\* A cycle starts: the bookkeeping every copy of the cycle shares.
BeginCycle(kind, d, next) ==
    /\ pc' = next
    /\ ck' = kind
    /\ inflight' = inflight + 1
    /\ duration' = d
    /\ log' = <<>>
    /\ audio_file' = FALSE
    /\ result_text' = <<>>
    /\ transcription' = <<>>
    /\ stop_reason' = "none"
    /\ diag' = "none"
    /\ UNCHANGED <<nOpen, conf, running, chunk_i, elapsed_time, checked>>

\* A recorder that would give up when the selected device cannot be opened.
OpenStreamNoFallback(next) ==
    \E ok \in BOOLEAN :
        LET tried == IF device_index # None THEN <<"open_selected">>
                     ELSE <<"open_default">>
        IN IF ok
           THEN /\ log' = log \o tried
                /\ pc' = next
                /\ UNCHANGED <<ck, nOpen, inflight, diag>>
           ELSE /\ Raised(tried)
                /\ RaiseException

\* audio.open(...): the selected device first when there is one, then the
\* default device once.  Sets the position and the log (or raises).
OpenStream(next) ==
    \E ok1 \in BOOLEAN, ok2 \in BOOLEAN :
        IF device_index # None /\ ok1
        THEN /\ log' = Append(log, "open_selected")
             /\ pc' = next
             /\ UNCHANGED <<ck, nOpen, inflight, diag>>
        ELSE LET tried == IF device_index # None
                          THEN <<"open_selected", "raise", "open_default">>
                          ELSE <<"open_default">>
             IN IF ok2
                THEN /\ log' = log \o tried
                     /\ pc' = next
                     /\ UNCHANGED <<ck, nOpen, inflight, diag>>
                ELSE /\ Raised(tried)
                     /\ RaiseException

\* record_until_shift_spacebar, up to its loop.
HotkeyOpen ==
    /\ pc = "hk_open"
    /\ OpenStream("hk_rec")
    /\ UNCHANGED <<conf, running, recv, result_text, transcription, audio_file, stop_reason>>

\* A recording loop without the time limit.
HotkeyLoopUnbounded == running

\* The recording loop's condition.
HotkeyLoopCondition == elapsed_time < max_duration /\ running

\* One pass of record_until_shift_spacebar's loop, and what follows the loop:
\* the stream is closed and the frames are written to a temporary file.
HotkeyRecord ==
    /\ pc = "hk_rec"
    /\ \E due \in BOOLEAN, key \in Keys, adv \in 0 .. 1, ok \in BOOLEAN :
          LET poll == due \/ ~checked
              stop(why, run) ==
                  /\ pc' = "after_rec"
                  /\ audio_file' = TRUE
                  /\ stop_reason' = why
                  /\ running' = run
                  /\ elapsed_time' = 0
                  /\ checked' = FALSE
                  /\ UNCHANGED <<ck, nOpen, inflight, diag, log>>
          IN  IF ~HotkeyLoopCondition
              THEN stop(IF running THEN "timeout" ELSE "flag", running)
              ELSE IF poll /\ key = "toggle" THEN stop("toggle", running)
              ELSE IF poll /\ key = "esc" THEN stop("esc", FALSE)
              ELSE IF ok
              THEN /\ elapsed_time' = elapsed_time + adv
                   /\ checked' = TRUE
                   /\ UNCHANGED <<ctlv, audio_file, stop_reason, running, log>>
              ELSE /\ Raised(<<"read">>)
                   /\ RaiseException
                   /\ elapsed_time' = 0
                   /\ checked' = FALSE
                   /\ UNCHANGED <<audio_file, stop_reason, running>>
    /\ UNCHANGED <<conf, duration, chunk_i, result_text, transcription>>

\* record_audio, up to its loop.
RecordAudioOpen ==
    /\ pc = "ra_open"
    /\ OpenStream("ra_rec")
    /\ duration' = IF pc' = "ra_rec" THEN duration ELSE 0
    /\ UNCHANGED <<conf, running, chunk_i, elapsed_time, checked,
                   result_text, transcription, audio_file, stop_reason>>

\* A loop that would read all its chunks whatever the flag.
RecordAudioLoopIgnoresFlag == chunk_i < NumChunks(duration)

\* for i in range(...): if not running: break
RecordAudioLoopCondition == chunk_i < NumChunks(duration) /\ running

\* One pass of record_audio's loop, and what follows the loop.
RecordAudio ==
    /\ pc = "ra_rec"
    /\ \E ok \in BOOLEAN :
          IF RecordAudioLoopCondition
          THEN IF ok
               THEN /\ chunk_i' = chunk_i + 1
                    /\ UNCHANGED <<ctlv, duration, audio_file, stop_reason, log>>
               ELSE /\ Raised(<<"read">>)
                    /\ RaiseException
                    /\ chunk_i' = 0
                    /\ duration' = 0
                    /\ UNCHANGED <<audio_file, stop_reason>>
          ELSE /\ pc' = "after_rec"
               /\ audio_file' = TRUE
               /\ stop_reason' = IF chunk_i < NumChunks(duration) THEN "flag"
                                 ELSE "elapsed"
               /\ chunk_i' = 0
               /\ duration' = 0
               /\ UNCHANGED <<ck, nOpen, inflight, diag, log>>
    /\ UNCHANGED <<conf, running, elapsed_time, checked, result_text, transcription>>

\* A hotkey cycle that would not look at the flag after recording.
ChecksFlagOnlyInCli == ck \in {"cli_continuous", "cli_single"}

\* The copies of the cycle that look at the flag between recording and
\* transcription.
ChecksFlagAfterRecord == ck \in {"hotkey", "cli_continuous", "cli_single"}

AfterRecord ==
    /\ pc = "after_rec"
    /\ IF ChecksFlagAfterRecord /\ ~running
       THEN IF ck = "hotkey"
            THEN /\ pc' = "exit_cleanup"
                 /\ UNCHANGED <<ck, nOpen, inflight, diag>>
            ELSE Leave
       ELSE /\ pc' = "transcribe"
            /\ UNCHANGED <<ck, nOpen, inflight, diag>>
    /\ UNCHANGED <<conf, running, recv, cycv>>

\* run_spacebar_mode's exit after a recording that ended with the flag down:
\* the clip is removed (a failure to remove it is swallowed) and it returns.
ExitCleanup ==
    /\ pc = "exit_cleanup"
    /\ \E removed \in BOOLEAN : audio_file' = (audio_file /\ ~removed)
    /\ log' = Append(log, "remove")
    /\ Leave
    /\ UNCHANGED <<conf, running, recv, result_text, transcription, stop_reason>>

\* A cycle that dispatches whatever the transcriber returned.
HasTextAlways(t) == TRUE

\* if transcription:
HasText(t) == t # <<>>

\* A cycle that copies to the clipboard before it writes the file.
SinkSequenceClipboardFirst == <<"d_clip", "d_file", "d_paste">>

\* The sinks in the order the cycle reaches them.
SinkSequence == <<"d_file", "d_clip", "d_paste">>

FirstSink == SinkSequence[1]

SinkAfter(p) ==
    IF p = SinkSequence[1] THEN SinkSequence[2]
    ELSE IF p = SinkSequence[2] THEN SinkSequence[3] ELSE "cleanup"

\* The language argument of model.transcribe: settings["language"] in the
\* interactive copies of the cycle, the local language in the others.
TranscribeLanguage == IF Interactive THEN settings.language ELSE language

\* model.transcribe(...), result["text"].strip(), and the echo of a
\* non-empty text.
Transcribe ==
    /\ pc = "transcribe"
    /\ \E ok \in BOOLEAN, text \in Texts :
          IF ok
          THEN /\ result_text' = text
               /\ transcription' = Strip(text)
               /\ IF HasText(Strip(text))
                  THEN /\ log' = log \o <<"transcribe", "echo">>
                       /\ pc' = FirstSink
                  ELSE /\ log' = log \o <<"transcribe", "empty">>
                       /\ pc' = "cleanup"
               /\ UNCHANGED <<ck, nOpen, inflight, diag>>
          ELSE /\ Raised(<<"transcribe">>)
               /\ RaiseException
               /\ UNCHANGED <<result_text, transcription>>
    /\ UNCHANGED <<conf, running, recv, audio_file, stop_reason>>

\* The sinks, as each copy of the cycle enables them.
FileSink == Handle # None

Flushes == ck # "cli_single"

\* A clipboard sink that would follow the clipboard flag alone.
ClipboardSinkFlagOnly ==
    CASE ck \in {"hotkey", "cli_continuous"} -> TRUE
      [] ck \in {"record", "continuous"} -> settings.clipboard
      [] OTHER -> args.clipboard

ClipboardSink ==
    CASE ck \in {"hotkey", "cli_continuous"} -> TRUE
      [] ck \in {"record", "continuous"} -> settings.clipboard \/ settings.autopaste
      [] OTHER -> args.clipboard \/ args.autopaste

AutoPaste == IF Interactive THEN settings.autopaste ELSE args.autopaste

PasteDelay == IF Interactive THEN settings.delay ELSE args.delay

\* output_file.write(...) and output_file.flush()
DispatchFile ==
    /\ pc = "d_file"
    /\ \E outcome \in {"ok", "write_fails", "flush_fails"} :
          IF ~FileSink
          THEN /\ pc' = SinkAfter("d_file")
               /\ UNCHANGED <<ck, nOpen, inflight, diag, log, disk>>
          ELSE IF outcome = "write_fails"
          THEN /\ Raised(<<"file">>)
               /\ RaiseException
               /\ UNCHANGED disk
          ELSE IF outcome = "flush_fails" /\ Flushes
          THEN /\ Raised(<<"file", "flush">>)
               /\ RaiseException
               /\ UNCHANGED disk
          ELSE /\ log' = IF Flushes THEN log \o <<"file", "flush">>
                         ELSE Append(log, "file")
               /\ disk' = disk \cup {Handle}
               /\ pc' = SinkAfter("d_file")
               /\ UNCHANGED <<ck, nOpen, inflight, diag>>
    /\ UNCHANGED <<args, device_index, model, language, output_file, settings, ncmd,
                   running, recv, result_text, transcription, audio_file, stop_reason>>

\* pyperclip.copy(transcription)
DispatchClipboard ==
    /\ pc = "d_clip"
    /\ \E ok \in BOOLEAN :
          IF ~ClipboardSink
          THEN /\ pc' = SinkAfter("d_clip")
               /\ UNCHANGED <<ck, nOpen, inflight, diag, log>>
          ELSE IF ok
          THEN /\ log' = Append(log, "clip")
               /\ pc' = SinkAfter("d_clip")
               /\ UNCHANGED <<ck, nOpen, inflight, diag>>
          ELSE /\ Raised(<<"clip">>)
               /\ RaiseException
    /\ UNCHANGED <<conf, running, recv, result_text, transcription, audio_file, stop_reason>>

\* time.sleep(delay) and pyautogui.hotkey(...); sleep refuses a negative delay.
DispatchPaste ==
    /\ pc = "d_paste"
    /\ \E ok \in BOOLEAN :
          IF ~AutoPaste
          THEN /\ pc' = SinkAfter("d_paste")
               /\ UNCHANGED <<ck, nOpen, inflight, diag, log>>
          ELSE IF PasteDelay < 0
          THEN /\ Raised(<<"sleep">>)
               /\ RaiseException
          ELSE IF ok
          THEN /\ log' = log \o <<"sleep", "paste">>
               /\ pc' = SinkAfter("d_paste")
               /\ UNCHANGED <<ck, nOpen, inflight, diag>>
          ELSE /\ Raised(<<"sleep", "paste">>)
               /\ RaiseException
    /\ UNCHANGED <<conf, running, recv, result_text, transcription, audio_file, stop_reason>>

\* What follows the removal of the clip, with the flag as `run`.
AfterCleanup(run) ==
    CASE ck = "hotkey" ->
           IF ~run
           THEN Leave
           ELSE /\ pc' = "sb_loop"
                /\ EndCycle
                /\ UNCHANGED <<ck, nOpen, diag>>
      [] ck = "record" ->
           /\ pc' = "prompt"
           /\ ck' = "none"
           /\ EndCycle
           /\ UNCHANGED <<nOpen, diag>>
      [] ck = "continuous" ->
           /\ pc' = "cont_loop"
           /\ EndCycle
           /\ UNCHANGED <<ck, nOpen, diag>>
      [] ck = "cli_continuous" ->
           /\ pc' = "cc_pause"
           /\ EndCycle
           /\ UNCHANGED <<ck, nOpen, diag>>
      [] OTHER -> Leave

\* try: os.remove(audio_file) / except: pass
Cleanup ==
    /\ pc = "cleanup"
    /\ \E removed \in BOOLEAN : audio_file' = (audio_file /\ ~removed)
    /\ log' = Append(log, "remove")
    /\ AfterCleanup(running)
    /\ UNCHANGED <<conf, running, recv, result_text, transcription, stop_reason>>

\* Positions inside a try whose bare except swallows every exception.
BareExceptPcs == {"cleanup"}

\* signal_handler: the flag goes down and sys.exit(0) raises SystemExit where
\* the main thread is; a bare except there swallows it.
SignalHandler ==
    /\ pc # "done"
    /\ running' = FALSE
    /\ IF pc \in BareExceptPcs
       THEN /\ \E removed \in BOOLEAN : audio_file' = (audio_file /\ ~removed)
            /\ AfterCleanup(FALSE)
       ELSE /\ RaiseSystemExit
            /\ IF pc = "exit_cleanup"
               THEN \E removed \in BOOLEAN : audio_file' = (audio_file /\ ~removed)
               ELSE UNCHANGED audio_file
    /\ stop_reason' = IF pc \in RecordingPcs THEN "signal" ELSE stop_reason
    /\ log' = log \o (IF pc \in {"cleanup", "exit_cleanup"}
                       THEN <<"remove", "signal">> ELSE <<"signal">>)
    /\ duration' = 0
    /\ chunk_i' = 0
    /\ elapsed_time' = 0
    /\ checked' = FALSE
    /\ UNCHANGED <<conf, result_text, transcription>>

\* --------------------------------------------------------- run_spacebar_mode

\* open(f, "w"): what the file held is gone.
Truncated(f) == disk \ {f}

\* open(args.save, "w") when a file is asked for; sets the handle and nOpen
\* (or raises), and the local language.
OpenOutputFile(next) ==
    /\ \E ok \in BOOLEAN :
          IF args.save # None
          THEN IF ok
               THEN /\ output_file' = args.save
                    /\ disk' = Truncated(args.save)
                    /\ nOpen' = nOpen + 1
                    /\ pc' = next
                    /\ UNCHANGED <<ck, inflight, diag>>
               ELSE /\ RaiseException
                    /\ UNCHANGED <<output_file, disk>>
          ELSE /\ pc' = next
               /\ UNCHANGED <<ck, nOpen, inflight, diag, output_file, disk>>
    /\ language' = IF args.language = s_auto THEN None ELSE args.language
    /\ UNCHANGED <<args, running, device_index, model, settings, ncmd, recv, cycv>>

SpacebarOpen ==
    /\ pc = "sb_open"
    /\ OpenOutputFile("sb_loop")

\* A hotkey loop that would also take a new press while a clip is transcribed.
HotkeyCycleStartsReentrant == pc \in {"sb_loop", "transcribe"}

\* Where run_spacebar_mode starts a cycle: the head of its "while True".
HotkeyCycleStarts == pc = "sb_loop"

SpacebarLoop ==
    /\ HotkeyCycleStarts
    /\ BeginCycle("hotkey", 0, "sb_wait")

\* A wait that any key, or none, would end.
StartsRecordingAlways(key) == TRUE

\* keyboard.is_pressed('shift') and keyboard.is_pressed('space')
StartsRecording(key) == key = "toggle"

\* One pass of the wait for Shift+Space; the log keeps the key that ended it.
SpacebarWait ==
    /\ pc = "sb_wait"
    /\ \E key \in Keys :
          IF ~running
          THEN Leave /\ log' = Append(log, "flag")
          ELSE IF StartsRecording(key)
          THEN /\ pc' = "sb_esc"
               /\ log' = IF key = "toggle" THEN Append(log, "toggle") ELSE log
               /\ UNCHANGED <<ck, nOpen, inflight, diag>>
          ELSE IF key = "esc"
          THEN Leave /\ log' = Append(log, "esc")
          ELSE UNCHANGED <<ctlv, log>>
    /\ UNCHANGED <<conf, running, recv, result_text, transcription, audio_file,
                   stop_reason>>

\* The ESC check between the wait and the recording.
SpacebarEscCheck ==
    /\ pc = "sb_esc"
    /\ \E key \in Keys :
          IF key = "esc"
          THEN Leave /\ log' = Append(log, "esc")
          ELSE /\ pc' = "hk_open"
               /\ UNCHANGED <<ck, nOpen, inflight, diag, log>>
    /\ UNCHANGED <<conf, running, recv, result_text, transcription, audio_file,
                   stop_reason>>

\* ------------------------------------------------- main: the two CLI modes

CliOpen ==
    /\ pc = "cli_open"
    /\ OpenOutputFile(IF args.continuous THEN "cc_loop" ELSE "cs_start")

\* while running: of the continuous mode.
CliContinuousLoop ==
    /\ pc = "cc_loop"
    /\ IF running
       THEN BeginCycle("cli_continuous", args.duration, "ra_open")
       ELSE /\ Leave
            /\ UNCHANGED <<conf, running, recv, cycv>>

\* time.sleep(0.5) at the end of a pass.
CliContinuousPause ==
    /\ pc = "cc_pause"
    /\ pc' = "cc_loop"
    /\ UNCHANGED <<ck, nOpen, inflight, diag, conf, running, recv, cycv>>

CliSingle ==
    /\ pc = "cs_start"
    /\ BeginCycle("cli_single", args.duration, "ra_open")

\* ------------------------------------------------------ argument parsing

Digits == {"0", "1", "2", "3", "4", "5", "6", "7", "8", "9"}

\* str.isdigit() is also true of digits int() and float() refuse, such as a
\* superscript two.
DigitLike == Digits \cup {"^2"}

IsDigit(s) == s # <<>> /\ \A k \in 1 .. Len(s) : s[k] \in DigitLike

Decimal(s) == \A k \in 1 .. Len(s) : s[k] \in Digits

DigitValue(c) ==
    CASE c = "0" -> 0 [] c = "1" -> 1 [] c = "2" -> 2 [] c = "3" -> 3
      [] c = "4" -> 4 [] c = "5" -> 5 [] c = "6" -> 6 [] c = "7" -> 7
      [] c = "8" -> 8 [] OTHER -> 9

\* int(s), for a decimal s.
RECURSIVE IntOf(_)
IntOf(s) ==
    IF s = <<>> THEN 0
    ELSE 10 * IntOf(SubSeq(s, 1, Len(s) - 1)) + DigitValue(s[Len(s)])

\* s.replace(c, "", 1)
RECURSIVE RemoveFirst(_, _)
RemoveFirst(s, c) ==
    IF s = <<>> THEN <<>>
    ELSE IF Head(s) = c THEN Tail(s) ELSE <<Head(s)>> \o RemoveFirst(Tail(s), c)

\* The part of s before the first c, and the part after it.
RECURSIVE Before(_, _)
Before(s, c) ==
    IF s = <<>> \/ Head(s) = c THEN <<>> ELSE <<Head(s)>> \o Before(Tail(s), c)

RECURSIVE After(_, _)
After(s, c) ==
    IF s = <<>> THEN <<>>
    ELSE IF Head(s) = c THEN Tail(s) ELSE After(Tail(s), c)

\* float(s) in tenths of a second, for digits with at most one "." and at
\* most one digit after it.
FloatTenths(s) ==
    10 * IntOf(Before(s, ".")) +
        (IF After(s, ".") = <<>> THEN 0 ELSE DigitValue(Head(After(s, "."))))

OnWords == {s_on, s_true, s_yes, s_1}
OffWords == {s_off, s_false, s_no, s_0}
valid_models == {s_tiny, s_base, s_small, s_medium, s_large, s_turbo}

\* The argument strings the model types at the prompt.
SwitchArgs == {s_on, s_1, s_off, s_0, s_maybe, s_empty}
RecordArgs == {s_empty, s_1, s_x, s_sup2}
LanguageArgs == {s_empty, s_auto, s_en}
DelayArgs == {s_1p5, s_neg1, s_dot, s_empty, s_sup2}
ModelArgs == {s_tiny, s_small, s_huge, s_empty}
SaveArgs == {s_off, s_f1, s_f2, s_empty}
DurationArgs == {s_0, s_x, s_empty, s_sup2}

\* ------------------------------------------------------ run_interactive_mode

\* The settings dictionary is built from args and the file is opened.
InteractiveOpen ==
    /\ pc = "in_open"
    /\ \E ok \in BOOLEAN :
          LET s0 == [model |-> args.model, language |-> args.language,
                     save_file |-> args.save, clipboard |-> args.clipboard,
                     autopaste |-> args.autopaste, delay |-> args.delay,
                     duration |-> args.duration, output_file |-> None]
          IN  IF s0.save_file # None
              THEN IF ok
                   THEN /\ settings' = [s0 EXCEPT !.output_file = s0.save_file]
                        /\ disk' = Truncated(s0.save_file)
                        /\ nOpen' = nOpen + 1
                        /\ pc' = "in_mic"
                        /\ UNCHANGED <<ck, inflight, diag>>
                   ELSE /\ settings' = s0
                        /\ RaiseException
                        /\ UNCHANGED disk
              ELSE /\ settings' = s0
                   /\ pc' = "in_mic"
                   /\ UNCHANGED <<ck, nOpen, inflight, diag, disk>>
    /\ UNCHANGED <<args, running, device_index, model, language, output_file,
                   ncmd, recv, cycv>>

InteractiveSelectMicrophone ==
    /\ pc = "in_mic"
    /\ SelectMicrophone("in_vol")

InteractiveCheckVolume ==
    /\ pc = "in_vol"
    /\ CheckMicrophoneVolume("prompt")

\* A command that ends at the prompt with message kind d.
Prompt(d) ==
    /\ pc' = "prompt"
    /\ diag' = d
    /\ UNCHANGED <<ck, inflight>>

\* A line is read at the prompt: the record of the last cycle is dropped.
ReadCommand ==
    /\ pc = "prompt"
    /\ result_text' = <<>>
    /\ transcription' = <<>>
    /\ audio_file' = FALSE
    /\ log' = <<>>
    /\ stop_reason' = "none"

\* A settings command is read; the model follows a session through at most
\* MaxCommands changes of its settings.
ReadSettingsCommand ==
    /\ ReadCommand
    /\ ncmd < MaxCommands

Changed == ncmd' = IF settings' # settings THEN ncmd + 1 ELSE ncmd

promptv == <<args, running, device_index, language, output_file, recv>>

\* What the commands other than save leave alone.
keptv == <<promptv, disk>>

\* exit, quit
CmdExit ==
    /\ ReadCommand
    /\ Leave
    /\ UNCHANGED <<model, settings, ncmd, keptv>>

\* help, status
CmdStatus ==
    /\ ReadCommand
    /\ Prompt("none")
    /\ UNCHANGED <<nOpen, model, settings, ncmd, keptv>>

\* anything else
CmdUnknown ==
    /\ ReadCommand
    /\ Prompt("unknown")
    /\ UNCHANGED <<nOpen, model, settings, ncmd, keptv>>

\* record [duration]
CmdRecord ==
    /\ pc = "prompt"
    /\ \E arg \in RecordArgs :
          IF arg # <<>> /\ IsDigit(arg)
          THEN IF Decimal(arg)
               THEN BeginCycle("record", IntOf(arg), "ra_open")
               ELSE /\ ReadCommand
                    /\ RaiseException
                    /\ UNCHANGED <<model, settings, ncmd, keptv>>
          ELSE BeginCycle("record", settings.duration, "ra_open")

\* continuous
CmdContinuous ==
    /\ ReadCommand
    /\ pc' = "cont_loop"
    /\ ck' = "continuous"
    /\ diag' = "none"
    /\ UNCHANGED <<nOpen, inflight, model, settings, ncmd, keptv>>

\* while continuous_running:
ContinuousLoop ==
    /\ pc = "cont_loop"
    /\ BeginCycle("continuous", settings.duration, "ra_open")

\* language [code]
CmdLanguage ==
    /\ ReadSettingsCommand
    /\ \E arg \in LanguageArgs :
          settings' = [settings EXCEPT
                          !.language = IF arg \in {s_auto, s_empty} THEN None ELSE arg]
    /\ Prompt("none")
    /\ Changed
    /\ UNCHANGED <<nOpen, model, keptv>>

\* clipboard on/off
CmdClipboard ==
    /\ ReadSettingsCommand
    /\ \E arg \in SwitchArgs :
          IF arg \in OnWords
          THEN settings' = [settings EXCEPT !.clipboard = TRUE] /\ Prompt("none")
          ELSE IF arg \in OffWords
          THEN settings' = [settings EXCEPT !.clipboard = FALSE] /\ Prompt("none")
          ELSE UNCHANGED settings /\ Prompt("invalid")
    /\ Changed
    /\ UNCHANGED <<nOpen, model, keptv>>

\* autopaste on/off
CmdAutopaste ==
    /\ ReadSettingsCommand
    /\ \E arg \in SwitchArgs :
          IF arg \in OnWords
          THEN /\ settings' = [settings EXCEPT !.autopaste = TRUE, !.clipboard = TRUE]
               /\ Prompt("none")
          ELSE IF arg \in OffWords
          THEN settings' = [settings EXCEPT !.autopaste = FALSE] /\ Prompt("none")
          ELSE UNCHANGED settings /\ Prompt("invalid")
    /\ Changed
    /\ UNCHANGED <<nOpen, model, keptv>>

\* delay [seconds]
CmdDelay ==
    /\ ReadSettingsCommand
    /\ \E arg \in DelayArgs :
          IF arg # <<>> /\ IsDigit(RemoveFirst(arg, "."))
          THEN IF Decimal(RemoveFirst(arg, "."))
               THEN /\ settings' = [settings EXCEPT !.delay = FloatTenths(arg)]
                    /\ Prompt("none")
                    /\ UNCHANGED nOpen
               ELSE RaiseException /\ UNCHANGED settings
          ELSE UNCHANGED <<settings, nOpen>> /\ Prompt("invalid")
    /\ Changed
    /\ UNCHANGED <<model, keptv>>

\* duration [seconds]
CmdDuration ==
    /\ ReadSettingsCommand
    /\ \E arg \in DurationArgs :
          IF arg # <<>> /\ IsDigit(arg)
          THEN IF Decimal(arg)
               THEN /\ settings' = [settings EXCEPT !.duration = IntOf(arg)]
                    /\ Prompt("none")
                    /\ UNCHANGED nOpen
               ELSE RaiseException /\ UNCHANGED settings
          ELSE UNCHANGED <<settings, nOpen>> /\ Prompt("invalid")
    /\ Changed
    /\ UNCHANGED <<model, keptv>>

\* model [name]: the name is recorded, then the model is loaded.
CmdModel ==
    /\ ReadSettingsCommand
    /\ \E arg \in ModelArgs, ok \in BOOLEAN :
          IF arg \in valid_models
          THEN IF arg # settings.model
               THEN /\ settings' = [settings EXCEPT !.model = arg]
                    /\ IF ok
                       THEN model' = arg /\ Prompt("none") /\ UNCHANGED nOpen
                       ELSE RaiseException /\ UNCHANGED model
               ELSE UNCHANGED <<settings, model, nOpen>> /\ Prompt("none")
          ELSE UNCHANGED <<settings, model, nOpen>> /\ Prompt("invalid")
    /\ Changed
    /\ UNCHANGED keptv

\* A save command that would drop the handle without closing the file.
HandlesWithoutClose == nOpen

\* The open handles once the save command has closed the one it holds.
HandlesAfterClose == IF settings.output_file # None THEN nOpen - 1 ELSE nOpen

\* save [filename]: the open file is closed first, whatever the argument.
CmdSave ==
    /\ ReadSettingsCommand
    /\ \E arg \in SaveArgs, ok \in BOOLEAN :
          LET closed == [settings EXCEPT !.output_file = None]
              n == HandlesAfterClose
          IN  IF arg \in OffWords
              THEN /\ settings' = [closed EXCEPT !.save_file = None]
                   /\ UNCHANGED disk
                   /\ nOpen' = n
                   /\ Prompt("none")
              ELSE IF arg # <<>>
              THEN IF ok
                   THEN /\ settings' = [closed EXCEPT !.save_file = arg,
                                                      !.output_file = arg]
                        /\ disk' = Truncated(arg)
                        /\ nOpen' = n + 1
                        /\ Prompt("none")
                   ELSE /\ settings' = [closed EXCEPT !.save_file = arg]
                        /\ UNCHANGED disk
                        /\ nOpen' = n
                        /\ Prompt("error")
              ELSE /\ settings' = closed
                   /\ UNCHANGED disk
                   /\ nOpen' = n
                   /\ Prompt("invalid")
    /\ Changed
    /\ UNCHANGED <<model, promptv>>

\* ------------------------------------------------------------ specification

Next ==
    \/ LoadModel
    \/ MainSelectMicrophone
    \/ MainCheckVolume
    \/ DispatchMode
    \/ SpacebarOpen
    \/ SpacebarLoop
    \/ SpacebarWait
    \/ SpacebarEscCheck
    \/ HotkeyOpen
    \/ HotkeyRecord
    \/ RecordAudioOpen
    \/ RecordAudio
    \/ AfterRecord
    \/ ExitCleanup
    \/ Transcribe
    \/ DispatchFile
    \/ DispatchClipboard
    \/ DispatchPaste
    \/ Cleanup
    \/ SignalHandler
    \/ CliOpen
    \/ CliContinuousLoop
    \/ CliContinuousPause
    \/ CliSingle
    \/ InteractiveOpen
    \/ InteractiveSelectMicrophone
    \/ InteractiveCheckVolume
    \/ CmdExit
    \/ CmdStatus
    \/ CmdUnknown
    \/ CmdRecord
    \/ CmdContinuous
    \/ ContinuousLoop
    \/ CmdLanguage
    \/ CmdClipboard
    \/ CmdAutopaste
    \/ CmdDelay
    \/ CmdDuration
    \/ CmdModel
    \/ CmdSave

Spec == Init /\ [][Next]_vars

\* The main thread is never suspended for good: while a step of the program
\* is possible, one is taken.
FairSpec == Spec /\ WF_vars(Next)

(***************************************************************************)
(* Properties                                                              *)
(***************************************************************************)

InLog(e) == \E k \in 1 .. Len(log) : log[k] = e

\* What the log holds for a call of a sink.
SinkCalls == {"file", "flush", "clip", "sleep", "paste"}

NoSinkCalled == \A k \in 1 .. Len(log) : log[k] \notin SinkCalls \cup {"echo"}

NonIdleStates == {"AwaitingHotkeyStart", "Recording", "Transcribing", "Dispatching"}

\* C1: at most one recording cycle is ever in flight.  A position in a
\* non-Idle state belongs to exactly one started and unfinished cycle, an
\* Idle position to none, and the count of started and unfinished cycles
\* never exceeds one, so a cycle only starts when the previous one is over.
C1_SingleFlight ==
    /\ inflight \in {0, 1}
    /\ State \in NonIdleStates => inflight = 1
    /\ State = "Idle" => inflight = 0

\* A cycle of the interactive continuous command is dispatching, after the
\* cycle before it left the flag down.
C1_Witness ==
    /\ inflight = 1
    /\ State = "Dispatching"
    /\ ck = "continuous"
    /\ ~running

\* The transcriber returned a text that is empty once stripped.
EmptyTranscription ==
    /\ \E k \in 1 .. Len(log) - 1 : log[k] = "transcribe" /\ log[k + 1] # "raise"
    /\ Strip(result_text) = <<>>

\* C2: a cycle whose transcription is empty after trimming calls no sink
\* (file, clipboard, paste, echo of the text), raises nothing after the
\* transcription and reports no error: all it still does is remove the clip.
C2_EmptyTextNoSink ==
    EmptyTranscription =>
        /\ NoSinkCalled
        /\ pc \notin {"d_file", "d_clip", "d_paste"}
        /\ diag # "error"
        /\ \A k \in 1 .. Len(log) :
              log[k] = "transcribe" =>
                 \A j \in (k + 2) .. Len(log) : log[j] \in {"remove", "signal"}

\* A whitespace-only transcription came back and the cycle has ended.
C2_Witness ==
    /\ EmptyTranscription
    /\ result_text # <<>>
    /\ InLog("remove")
    /\ inflight = 0

\* C3: when the cycle has a transcript file, a call of the clipboard is
\* preceded in the cycle by the call that writes the file, whether or not
\* either call fails.
C3_FileBeforeClipboard ==
    \A k \in 1 .. Len(log) :
        (log[k] = "clip" /\ FileSink) => \E j \in 1 .. (k - 1) : log[j] = "file"

\* The file was written and flushed, and then the clipboard call failed.
C3_Witness ==
    /\ FileSink
    /\ Len(log) >= 4
    /\ log[Len(log)] = "raise"
    /\ log[Len(log) - 1] = "clip"
    /\ log[Len(log) - 2] = "flush"
    /\ log[Len(log) - 3] = "file"

\* C4 (as the specification states it): when a sink fails, the cycle goes on
\* to the sink after it (and so on to the removal of the clip and back to
\* Idle); the failure ends neither the cycle nor the session.
C4_SinkFailureIsolated ==
    [][(/\ pc \in {"d_file", "d_clip", "d_paste"}
        /\ Len(log') > Len(log)
        /\ log'[Len(log')] = "raise")
       => (pc' = SinkAfter(pc) /\ inflight' = inflight /\ diag' # "error")]_vars

\* The flag went down while the cycle was recording.
ShutdownWhileRecording == stop_reason \in {"esc", "signal"}

\* C5: a cycle whose recording was ended by ESC or by a signal never calls
\* the transcriber or a sink, and is on the way out: the flag is down, a
\* signal left at once without a clip, and the ESC path tries to remove the
\* clip it wrote before it returns.
C5_ShutdownWhileRecording ==
    ShutdownWhileRecording =>
        /\ ~running
        /\ ~InLog("transcribe")
        /\ NoSinkCalled
        /\ pc \in {"after_rec", "exit_cleanup", "done"}
        /\ State \in {"Recording", "ShuttingDown"}
        /\ stop_reason = "signal" => (pc = "done" /\ ~audio_file)
        /\ (pc = "done" /\ ~InLog("signal")) => InLog("remove")

\* ESC ended a hotkey recording, the clip was removed and the mode returned.
C5_Witness ==
    /\ stop_reason = "esc"
    /\ pc = "done"
    /\ InLog("remove")
    /\ ~audio_file

\* C6 (as the specification states it): once the flag is down it stays down
\* and no cycle enters Recording any more.
C6_FlagTerminal ==
    [][~running =>
         /\ ~running'
         /\ pc' \in {"hk_open", "ra_open"} => pc \in {"hk_open", "ra_open"}]_vars

\* C7: a hotkey recording whose elapsed time has reached max_duration leaves
\* the loop at its next pass with the clip written, with no key pressed, and
\* the cycle goes on to transcribe that clip; the elapsed time never passes
\* max_duration inside the loop.  (Steps of the signal handler apart.)
C7_RecordingTimeLimit ==
    /\ [](pc = "hk_rec" => elapsed_time <= max_duration)
    /\ [][(pc = "hk_rec" /\ elapsed_time >= max_duration /\ running')
          => (pc' = "after_rec" /\ audio_file' /\ stop_reason' = "timeout")]_vars
    /\ [][(pc = "after_rec" /\ stop_reason = "timeout" /\ running')
          => (pc' = "transcribe" /\ audio_file')]_vars

\* A hotkey recording ran into the limit and its clip is being transcribed.
C7_Witness ==
    /\ pc = "transcribe"
    /\ ck = "hotkey"
    /\ stop_reason = "timeout"
    /\ audio_file

\* C8 (as the specification states it): when the session has ended, no
\* transcript file handle is left open.
C8_FileClosedOnExit == pc = "done" => nOpen = 0

\* C9 (as the specification states it): an interactive cycle transcribes with
\* the model that the settings record names.
C9_CycleUsesSettings ==
    (Interactive /\ pc \in CyclePcs) => model = settings.model

\* C10 (as the specification states it): a command that ends with the
\* diagnostic of an unknown command or of a bad argument leaves the settings
\* record, the open file handle and the model as they were.
C10_RejectedCommandFrame ==
    [][(pc = "prompt" /\ pc' = "prompt" /\ diag' \in {"invalid", "unknown"})
       => (settings' = settings /\ nOpen' = nOpen /\ model' = model)]_vars

\* The step is a call that raised.
CallRaised == Len(log') > Len(log) /\ log'[Len(log')] = "raise"

\* C11 (as the specification states it): when the transcriber fails in a
\* hotkey or interactive cycle, no sink has been called, the cycle is over
\* and the controller is Idle, ready for a later cycle.
C11_TranscriberFailureIsolated ==
    [][(pc = "transcribe" /\ ck \in {"hotkey", "record", "continuous"} /\ CallRaised)
       => (NoSinkCalled' /\ inflight' = 0 /\ State' = "Idle")]_vars

\* C12 (as the specification states it): at the prompt the model named in
\* the settings record is the model that is loaded.
C12_RecordedModelIsActive == pc = "prompt" => settings.model = model

\* C13 (as the specification states it): in the settings record, autopaste
\* enabled implies clipboard enabled.
C13_AutopasteImpliesClipboard ==
    (InInteractiveLoop /\ settings.autopaste) => settings.clipboard

\* The autopaste flag of the mode the session runs in.
AutopasteFlag == IF settings # NoSettings THEN settings.autopaste ELSE args.autopaste

\* C14: the paste key combination is only triggered with autopaste enabled,
\* right after the wait for the delay, which comes right after a clipboard
\* write that succeeded in the same cycle.
C14_PasteAfterClipboard ==
    \A k \in 1 .. Len(log) :
        log[k] = "paste" =>
            /\ AutopasteFlag
            /\ k >= 3
            /\ log[k - 1] = "sleep"
            /\ log[k - 2] = "clip"

\* An interactive cycle has pasted with autopaste on and the clipboard flag off.
C14_Witness ==
    /\ InLog("paste")
    /\ settings # NoSettings
    /\ settings.autopaste
    /\ ~settings.clipboard

Count(e) == Cardinality({k \in 1 .. Len(log) : log[k] = e})

\* C15: in a cycle the selected device is opened at most once and the
\* default device at most once; a failed open of the selected device is
\* followed at once by one open of the default device, and when that one
\* succeeds the cycle is in its recording loop or beyond it.
C15_SingleFallback ==
    /\ Count("open_selected") <= 1
    /\ Count("open_default") <= 1
    /\ \A k \in 1 .. Len(log) :
          (log[k] = "open_selected" /\ k < Len(log) /\ log[k + 1] = "raise")
             => (k + 2 <= Len(log) /\ log[k + 2] = "open_default")
    /\ \A k \in 1 .. Len(log) :
          log[k] = "open_default" => \A j \in k + 1 .. Len(log) : log[j] # "open_selected"
    /\ (Len(log) >= 1 /\ log[Len(log)] = "open_default")
          => pc \in {"hk_rec", "ra_rec", "after_rec", "transcribe", "exit_cleanup"}

\* The selected device failed, the default one opened, and the cycle has
\* recorded, transcribed and copied the text.
C15_Witness ==
    /\ Len(log) >= 6
    /\ log[1] = "open_selected"
    /\ log[2] = "raise"
    /\ log[3] = "open_default"
    /\ log[4] = "transcribe"
    /\ InLog("clip")
    /\ InLog("remove")

\* C16 (as the specification states it): when the audio source cannot be
\* opened in a hotkey or interactive cycle, nothing is transcribed or
\* dispatched, the cycle is over and the controller is Idle, ready for a
\* later cycle.
C16_CaptureFailureIsolated ==
    [][(pc \in {"hk_open", "ra_open"} /\ ck \in {"hotkey", "record", "continuous"}
        /\ CallRaised)
       => (/\ ~InLog("transcribe")'
           /\ NoSinkCalled'
           /\ inflight' = 0
           /\ State' = "Idle")]_vars

\* C17 (as the specification states it): when no cycle is in progress, no
\* clip is left whose removal was never attempted (paths cut short by a
\* signal apart).
C17_ClipDiscarded ==
    (inflight = 0 /\ ~InLog("remove") /\ ~InLog("signal")) => ~audio_file

\* C18: at most one transcript file handle is open at any time, and in the
\* interactive shell a handle is open exactly when the settings record holds
\* one: the save command has closed the handle it replaces.
C18_OneHandle ==
    /\ nOpen \in {0, 1}
    /\ InInteractiveLoop => (nOpen = 1 <=> settings.output_file # None)

\* The shell was started with one transcript file open and a save command
\* has put another in its place.
C18_Witness ==
    /\ pc = "prompt"
    /\ args.save = s_f1
    /\ settings.output_file = s_f2
    /\ nOpen = 1

\* C19 (as the specification states it): once a signal has arrived during a
\* cycle of the interactive continuous command, control comes back: the
\* shell prompts again or the session ends.
C19_ContinuousGivesBack ==
    (ck = "continuous" /\ InLog("signal")) ~> (pc \in {"prompt", "done"})

\* C20 (as the specification states it): a write to the transcript file is
\* followed at once by its flush (or has raised), before anything else of
\* the cycle is called.
C20_FileFlushed ==
    \A k \in 1 .. Len(log) :
        log[k] = "file" => (k < Len(log) /\ log[k + 1] \in {"flush", "raise"})

\* C21 (as the specification states it): a Ctrl+C during the interactive
\* continuous command brings the shell back to its prompt.
C21_CtrlCBackToPrompt ==
    [][(ck = "continuous" /\ running /\ ~running')
       => (pc' = "prompt" /\ ck' = "none")]_vars

\* What the log holds for a call of the audio source, the transcriber or a sink.
CaptureCalls == {"open_selected", "open_default", "read", "transcribe", "echo"} \cup SinkCalls

NothingCaptured == ~audio_file /\ \A k \in 1 .. Len(log) : log[k] \notin CaptureCalls

\* C22: in hotkey mode a cycle is in Recording or beyond only after the wait
\* was ended by Shift+Space, and the audio source, the transcriber and the
\* sinks are only called in such a cycle and not after an ESC or a signal
\* that followed the press at once; a wait ended by ESC or by the flag goes
\* straight to ShuttingDown with nothing opened, recorded or dispatched.
C22_RecordingOnlyOnToggle ==
    ck = "hotkey" =>
        /\ pc \in (CyclePcs \ {"sb_wait", "sb_esc"})
              => (Len(log) >= 1 /\ log[1] = "toggle")
        /\ \/ NothingCaptured
           \/ /\ Len(log) >= 2
              /\ log[1] = "toggle"
              /\ log[2] \notin {"esc", "flag", "signal"}
        /\ (Len(log) >= 1 /\ log[Len(log)] \in {"esc", "flag"})
              => (pc = "done" /\ State = "ShuttingDown" /\ NothingCaptured)

\* ESC ended the wait for Shift+Space and the mode has returned.
C22_Witness ==
    /\ ck = "hotkey"
    /\ pc = "done"
    /\ log = <<"esc">>
    /\ running

InRecordingLoop == pc \in {"hk_rec", "ra_rec"}

\* C23: a recording loop reads no chunk once the flag is down: the step that
\* puts the flag down inside the loop leaves the loop, and a pass of the loop
\* that finds the flag down ends the loop without a read, in both recorders.
C23_FlagCheckedBeforeRead ==
    /\ [][(InRecordingLoop /\ running /\ ~running')
          => pc' \in {"after_rec", "done"}]_vars
    /\ [][(InRecordingLoop /\ ~running)
          => (/\ pc' \in {"after_rec", "done"}
              /\ ~running'
              /\ chunk_i' = 0 /\ elapsed_time' = 0
              /\ ~InLog("read")')]_vars

\* record_audio was entered with the flag down and left its loop at once.
C23_Witness ==
    /\ pc = "after_rec"
    /\ stop_reason = "flag"
    /\ ~running
    /\ audio_file

\* C24 (as the specification states it): a signal that arrives while the
\* transcriber runs leaves the cycle in Transcribing, for the call to
\* complete.
C24_TranscriptionNotInterrupted ==
    [][(pc = "transcribe" /\ running /\ ~running') => pc' = "transcribe"]_vars

\* C25 (as the specification states it): the settings record holds a clip
\* duration that is positive and a paste delay that is not negative.
C25_DurationAndDelayInRange ==
    settings # NoSettings => (settings.duration > 0 /\ settings.delay >= 0)

\* C26 (as the specification states it): the language passed to the
\* transcriber is never the literal "auto".
C26_AutoIsNoLanguage == pc = "transcribe" => TranscribeLanguage # s_auto

\* C27 (as the specification states it): at the prompt a save path is
\* recorded in the settings exactly when a transcript file handle is open.
C27_SavePathIffHandle ==
    pc = "prompt" => (settings.save_file # None <=> settings.output_file # None)

\* C28 (as the specification states it): a transcript file that holds a
\* written transcription still holds it after every step of the session.
C28_TranscriptsKept == [][disk \subseteq disk']_vars

====
